---- MODULE Spec2Model ----
(***************************************************************************)
(* A model of the JOS kernel monitor, kern/monitor.c: the permission       *)
(* codec (char2perm, perm2str, str2perm), the page-table commands          *)
(* (mon_showmap, mon_setperm, mon_dumpmem), the stack unwinder             *)
(* (mon_backtrace), the single-step commands (mon_step, mon_continue) and  *)
(* the command loop (runcmd, monitor).                                     *)
(*                                                                         *)
(* Machine words.  TLC's integers are 32-bit signed, so a uint32_t cannot  *)
(* be held at full width.  The model keeps the x86 address layout          *)
(*     | PDX | PTX | PGOFF |                                               *)
(* with the real 12-bit page offset (and so the real 12 attribute bits of  *)
(* an entry), and narrows the two index fields from 10 bits to PDXBITS and *)
(* PTXBITS bits.  A uint32_t is a number modulo WORD = 2^(12+PTXBITS+      *)
(* PDXBITS); a uint16_t keeps its 16 bits, and WORD is wider than that.    *)
(* Strings are sequences of one-character strings.                         *)
(***************************************************************************)
EXTENDS Integers, Sequences, FiniteSets, TLC

VARIABLES
    kern_pgdir,   \* the kernel's page directory: [0..NPDENTRIES-1 -> entry]
    env_pgdir,    \* curenv->env_pgdir
    curenv,       \* NULL, or the current environment
    ptables,      \* physical frames that hold second-level tables
    tf,           \* the trap frame handed to the command, or NULL
    ebp,          \* the frame-pointer register, as read_ebp() reads it
    stack,        \* the words of the kernel stack: [address -> uint32_t]
    mon,          \* where monitor() is: in its loop, or returned from it
    last          \* the last command run: its name, arguments, output, result

vars == <<kern_pgdir, env_pgdir, curenv, ptables, tf, ebp, stack, mon, last>>

\* A pointer is a tuple: empty when null, else holding what it points to.
NULL == <<>>

\* The result of a command whose loop never exits, and of one that panics.
DIVERGES == -3
PANIC == -2

----------------------------------------------------------------------------
(* Address layout (inc/mmu.h) *)

PGSHIFT == 12
PTXSHIFT == 12
PTXBITS == 2
PDXBITS == 3

RECURSIVE Pow2(_)
Pow2(n) == IF n = 0 THEN 1 ELSE 2 * Pow2(n - 1)

PDXSHIFT == PTXSHIFT + PTXBITS
PGSIZE == Pow2(PGSHIFT)
NPTENTRIES == Pow2(PTXBITS)
NPDENTRIES == Pow2(PDXBITS)
LPGSIZE == Pow2(PDXSHIFT)
WORD == Pow2(PDXSHIFT + PDXBITS)
U16 == Pow2(16)

\* uint32_t arithmetic
U32(x) == x % WORD

RECURSIVE BitAnd(_, _)
BitAnd(a, b) ==
    IF a = 0 \/ b = 0 THEN 0
    ELSE (a % 2) * (b % 2) + 2 * BitAnd(a \div 2, b \div 2)

RECURSIVE BitOr(_, _)
BitOr(a, b) ==
    IF a = 0 THEN b
    ELSE IF b = 0 THEN a
    ELSE (IF a % 2 = 1 \/ b % 2 = 1 THEN 1 ELSE 0)
         + 2 * BitOr(a \div 2, b \div 2)

BitNot(a) == WORD - 1 - a

MIN(a, b) == IF a < b THEN a ELSE b

PDX(va) == (va \div LPGSIZE) % NPDENTRIES
PTX(va) == (va \div PGSIZE) % NPTENTRIES
PGOFF(va) == va % PGSIZE
\* inc/mmu.h builds an address by OR-ing the shifted indexes.
PGADDR(d, t, o) == BitOr(BitOr(U32(d * LPGSIZE), U32(t * PGSIZE)), o)
PTE_ADDR(e) == BitAnd(e, BitNot(PGSIZE - 1))
ROUNDDOWN(a, n) == a - (a % n)

\* Entry flags (the values monitor.c lists beside char2perm)
PTE_P == 1
PTE_W == 2
PTE_U == 4
PTE_PWT == 8
PTE_PCD == 16
PTE_A == 32
PTE_D == 64
PTE_PS == 128
PTE_G == 256

PERM(entry) == BitAnd(entry, 4095)

\* entry & flag, for a flag of one bit
Has(entry, flag) == (entry \div flag) % 2 = 1

----------------------------------------------------------------------------
(* The permission codec *)

char2perm(c) ==
    CASE c = "G" -> PTE_G
      [] c = "S" -> PTE_PS
      [] c = "D" -> PTE_D
      [] c = "A" -> PTE_A
      [] c = "C" -> PTE_PCD
      [] c = "T" -> PTE_PWT
      [] c = "U" -> PTE_U
      [] c = "W" -> PTE_W
      [] c = "P" -> PTE_P
      [] OTHER   -> U32(-1)

\* Mutant: the table is written in the order of the printed string.
perm_string_printed == <<"G", "S", "D", "A", "C", "T", "U", "W", "P">>

\* "PWUTCADSG": perm_string[i] names bit i
perm_string == <<"P", "W", "U", "T", "C", "A", "D", "S", "G">>

\* perm2str writes target[8-i] for i = 8..0; position k (1-based) of the
\* result is target[k-1], written when i = 9-k.
perm2str(perm0) ==
    LET perm == IF perm0 >= 512 THEN perm0 - 512 ELSE perm0
    IN  [k \in 1..9 |->
            IF BitAnd(perm, Pow2(9 - k)) # 0
            THEN perm_string[(9 - k) + 1]
            ELSE "-"]

\* The while loop of str2perm: OR the lookup of every character.
RECURSIVE str2permLoop(_, _)
str2permLoop(str, perm) ==
    IF str = <<>> THEN perm
    ELSE str2permLoop(Tail(str), BitOr(perm, char2perm(Head(str))))

\* perm is unsigned, so the test "perm < 0" guarding the panic is false for
\* every value: the lookup of an unknown character stays in the result.
str2perm(str) ==
    LET perm == str2permLoop(str, 0)
    IN  IF perm < 0 THEN PANIC
        ELSE BitAnd(perm, BitNot(char2perm("P")))

----------------------------------------------------------------------------
(* Page-table access *)

\* curenv ? curenv->env_pgdir : kern_pgdir
cur_pgdir == IF curenv # NULL THEN env_pgdir ELSE kern_pgdir

PDE(pgdir, va) == pgdir[PDX(va)]

\* PTE_PTR: the slot PTX(va) of the table in the frame the directory entry
\* names; KADDR maps the frame's physical address to the table.
PTE_PTR(pgdir, va) == <<PTE_ADDR(PDE(pgdir, va)), PTX(va)>>
PTE(pgdir, pt, va) == pt[PTE_PTR(pgdir, va)[1]][PTE_PTR(pgdir, va)[2]]

\* Frames of pt that no present directory entry of pgdir uses as a table.
FreeFrames(pgdir, pt) ==
    {f \in DOMAIN pt :
        \A i \in DOMAIN pgdir :
            Has(pgdir[i], PTE_P) /\ ~Has(pgdir[i], PTE_PS)
                => PTE_ADDR(pgdir[i]) # f}

\* kern/pmap.c: the leaf entry of va.  Without a present directory entry it
\* returns NULL, or with create installs a zeroed table first.
pgdir_walk(pgdir, pt, va, create) ==
    IF Has(PDE(pgdir, va), PTE_P)
    THEN [pgdir |-> pgdir, pt |-> pt, pte |-> PTE_PTR(pgdir, va)]
    ELSE IF create = 0 \/ FreeFrames(pgdir, pt) = {}
    THEN [pgdir |-> pgdir, pt |-> pt, pte |-> NULL]
    ELSE LET f == CHOOSE g \in FreeFrames(pgdir, pt) : TRUE
             pd2 == [pgdir EXCEPT ![PDX(va)] = f + PTE_P + PTE_W + PTE_U]
             pt2 == [pt EXCEPT ![f] = [i \in 0..(NPTENTRIES - 1) |-> 0]]
         IN  [pgdir |-> pd2, pt |-> pt2, pte |-> <<f, PTX(va)>>]

\* A command argument: its text, and the value strtol(arg, 0, 0) gives it
\* as a machine word.  The text of a number is abridged to "#", standing for
\* its digits; text that does not start a number converts to 0.
N(n) == [str |-> <<"#">>, num |-> U32(n)]
S(chars) == [str |-> chars, num |-> 0]

strtol(a) == a.num

\* isdigit(*argv[1])
isdigit(a) == a.str # <<>> /\ Head(a.str) = "#"

----------------------------------------------------------------------------
(* mon_showmap.  args are argv[1..], so argc = Len(args) + 1. *)

Usage == [kind |-> "Usage"]

\* The for loop of mon_showmap from the state (vstart, out).  The page
\* tables do not change while it runs, so an iteration that starts at an
\* address an earlier iteration started at repeats for ever; seen is the set
\* of addresses at which an iteration has started.
RECURSIVE showmapLoop(_, _, _, _, _, _)
showmapLoop(pgdir, pt, vstart, vend, out, seen) ==
    IF ~(vstart <= vend) THEN [out |-> out, ret |-> 0]
    ELSE IF vstart \in seen THEN [out |-> out, ret |-> DIVERGES]
    ELSE
    LET pde == PDE(pgdir, vstart)
        seen2 == seen \cup {vstart}
    IN  IF Has(pde, PTE_P)
        THEN IF Has(pde, PTE_PS)
             THEN LET pvaddr == BitOr(PTE_ADDR(pde), PTX(vstart) * PGSIZE)
                      line == [kind |-> "Mapped", pse |-> TRUE,
                               va |-> vstart, pa |-> pvaddr,
                               perm |-> perm2str(PERM(pde))]
                  IN  showmapLoop(pgdir, pt, U32(vstart + LPGSIZE), vend,
                                  Append(out, line), seen2)
             ELSE LET pte == PTE(pgdir, pt, vstart)
                      dbg == [kind |-> "PtePerm", perm |-> PERM(pte)]
                      line == [kind |-> "Mapped", pse |-> FALSE,
                               va |-> vstart, pa |-> PTE_ADDR(pde),
                               perm |-> perm2str(PERM(pte))]
                  IN  IF Has(pte, PTE_P)
                      THEN showmapLoop(pgdir, pt, U32(vstart + PGSIZE), vend,
                                       out \o <<dbg, line>>, seen2)
                      ELSE showmapLoop(pgdir, pt, vstart, vend, out, seen2)
        ELSE [out |-> Append(out, [kind |-> "Unmapped", va |-> vstart]),
              ret |-> 1]

mon_showmap(pgdir, pt, args) ==
    LET argc == Len(args) + 1 IN
    IF argc < 2 \/ (argc = 2 /\ ~isdigit(args[1]))
    THEN [out |-> <<Usage>>, ret |-> 1]
    ELSE LET vstart == strtol(args[1])
             vlen == IF argc >= 3 THEN strtol(args[2]) ELSE 1
             vend == U32(vstart + vlen)
         IN  showmapLoop(pgdir, pt, ROUNDDOWN(vstart, PGSIZE), vend,
                         <<>>, {})

----------------------------------------------------------------------------
(* mon_setperm *)

\* permission[9] = 0; strncpy(permission, argv[2], 9)
strncpy9(str) == IF Len(str) > 9 THEN SubSeq(str, 1, 9) ELSE str

\* Mutant: the walk is asked to allocate.
setperm_walk_create(pgdir, pt, va) == pgdir_walk(pgdir, pt, va, 1)

\* pgdir_walk(pgdir, va, 0)
setperm_walk(pgdir, pt, va) == pgdir_walk(pgdir, pt, va, 0)

\* Mutant: the old entry is not kept, so its frame is lost.
pde_store_lose_frame(pde, perm) == BitOr(BitOr(perm, PTE_P), PTE_PS)

\* Mutant: PTE_PS is not re-asserted.
pde_store_no_ps(pde, perm) ==
    BitOr(BitOr(BitAnd(pde, BitNot(4095)), perm), PTE_P)

\* *pde = (*pde & ~0xFFF) | perm | PTE_P | PTE_PS
pde_store(pde, perm) ==
    BitOr(BitOr(BitOr(BitAnd(pde, BitNot(4095)), perm), PTE_P), PTE_PS)

\* *pte = (*pte & ~0xFFF) | (perm & 0xFFF) | PTE_P
pte_store(pte, perm) ==
    BitOr(BitOr(BitAnd(pte, BitNot(4095)), BitAnd(perm, 4095)), PTE_P)

mon_setperm(pgdir, pt, args) ==
    LET argc == Len(args) + 1 IN
    IF argc # 3
    THEN [pgdir |-> pgdir, pt |-> pt, out |-> <<Usage>>, ret |-> 1]
    ELSE
    LET va == strtol(args[1])
        decoded == str2perm(strncpy9(args[2].str))
        \* uint16_t perm = str2perm(permission)
        perm == decoded % U16
        pde == PDE(pgdir, va)
        nomap == [pgdir |-> pgdir, pt |-> pt,
                  out |-> <<[kind |-> "NoSuchMapping"]>>, ret |-> 1]
    IN  IF decoded = PANIC
        THEN [pgdir |-> pgdir, pt |-> pt, out |-> <<>>, ret |-> PANIC]
        ELSE IF Has(pde, PTE_PS)
        THEN IF Has(pde, PTE_P)
             THEN LET new == pde_store(pde, perm)
                      pa == BitOr(BitOr(PTE_ADDR(new), PTX(va) * PGSIZE),
                                  PGOFF(va))
                  IN  [pgdir |-> [pgdir EXCEPT ![PDX(va)] = new],
                       pt |-> pt,
                       out |-> <<[kind |-> "NewMapping", va |-> va,
                                  pa |-> pa, perm |-> PERM(new)]>>,
                       ret |-> 0]
             ELSE nomap
        ELSE LET w == setperm_walk(pgdir, pt, va)
                 pte == w.pte
             IN  IF pte # NULL /\ Has(w.pt[pte[1]][pte[2]], PTE_P)
                 THEN LET old == w.pt[pte[1]][pte[2]]
                          new == pte_store(old, perm)
                          pa == BitOr(PTE_ADDR(new), PGOFF(va))
                      IN  [pgdir |-> w.pgdir,
                           pt |-> [w.pt EXCEPT ![pte[1]][pte[2]] = new],
                           out |-> <<[kind |-> "NewMapping", va |-> va,
                                      pa |-> pa, perm |-> PERM(new)]>>,
                           ret |-> 0]
                 ELSE [nomap EXCEPT !.pgdir = w.pgdir, !.pt = w.pt]

----------------------------------------------------------------------------
(* mon_dumpmem *)

\* KERNBASE is the top sixteenth of the address space (0xF0000000).
KERNBASE == WORD - (WORD \div 16)

PhysOpts == {<<"-", "p">>,
             <<"-", "-", "p", "h", "y", "s", "i", "c", "a", "l">>}
VirtOpts == {<<"-", "v">>,
             <<"-", "-", "v", "i", "r", "t", "u", "a", "l">>}

\* for (; mstart < next; ++mstart): the addresses the loop visits
ByteRange(mstart, next) ==
    IF mstart < next
    THEN [k \in 1..(next - mstart) |-> mstart + k - 1]
    ELSE <<>>

UnmappedByte(a) == [kind |-> "Unmapped", va |-> a]

\* The while loop of the virtual mode from the state (mstart, out).  An
\* iteration that leaves mstart where it was repeats for ever.
RECURSIVE dumpLoop(_, _, _, _, _)
dumpLoop(pgdir, pt, mstart, mend, out) ==
    IF ~(mstart < mend) THEN [out |-> out, ret |-> 0]
    ELSE
    LET pde == PDE(pgdir, mstart)
        nextpg == MIN(PGADDR(PDX(mstart), PTX(mstart) + 1, 0), mend)
        nextpd == MIN(PGADDR(PDX(mstart) + 1, 0, 0), mend)
        w == pgdir_walk(pgdir, pt, mstart, 0)
        SuperByte(a) ==
            [kind |-> "MappedByte", va |-> a,
             pa |-> BitOr(BitOr(PTE_ADDR(PDE(pgdir, a)), PTX(a) * PGSIZE),
                          PGOFF(a))]
        LeafByte(a) ==
            [kind |-> "MappedByte", va |-> a,
             pa |-> BitOr(PTE_ADDR(w.pt[w.pte[1]][w.pte[2]]), PGOFF(a))]
        topg == ByteRange(mstart, nextpg)
        topd == ByteRange(mstart, nextpd)
        step ==
            IF Has(pde, PTE_PS)
            THEN IF Has(pde, PTE_P)
                 THEN [next |-> nextpg,
                       lines |-> [k \in DOMAIN topg |-> SuperByte(topg[k])]]
                 ELSE [next |-> mstart, lines |-> <<UnmappedByte(mstart)>>]
            ELSE IF w.pte = NULL
                 THEN [next |-> nextpd,
                       lines |-> [k \in DOMAIN topd |->
                                     UnmappedByte(topd[k])]]
                 ELSE IF ~Has(w.pt[w.pte[1]][w.pte[2]], PTE_P)
                 THEN [next |-> nextpg,
                       lines |-> [k \in DOMAIN topg |->
                                     UnmappedByte(topg[k])]]
                 ELSE [next |-> nextpg,
                       lines |-> [k \in DOMAIN topg |-> LeafByte(topg[k])]]
    IN  IF step.next > mstart
        THEN dumpLoop(pgdir, pt, step.next, mend, out \o step.lines)
        ELSE [out |-> out \o step.lines, ret |-> DIVERGES]

mon_dumpmem(pgdir, pt, args) ==
    LET argc == Len(args) + 1
        help == [out |-> <<Usage>>, ret |-> 1]
        isopt(i) == args[i].str \in PhysOpts \cup VirtOpts
        recog == argc = 4 /\ \E i \in 1..3 : isopt(i)
        i0 == CHOOSE i \in 1..3 : isopt(i) /\ \A j \in 1..(i - 1) : ~isopt(j)
        phys == recog /\ args[i0].str \in PhysOpts
        argv == IF argc = 4
                THEN [j \in 1..2 |-> IF j < i0 THEN args[j] ELSE args[j + 1]]
                ELSE args
    IN
    IF (argc = 4 /\ ~recog) \/ (argc # 4 /\ argc # 3) THEN help
    ELSE
    LET mstart == strtol(argv[1])
        mlen == strtol(argv[2])
        mend == U32(mstart + mlen)
        top == U32(BitNot(KERNBASE) + 1)
        PhysBytes(r) == [k \in DOMAIN r |->
                            [kind |-> "MappedByte", pa |-> r[k]]]
    IN  IF phys
        THEN IF mend > top
             THEN [out |-> <<[kind |-> "Truncated"]>>
                           \o PhysBytes(ByteRange(mstart, top)),
                   ret |-> 0]
             ELSE [out |-> PhysBytes(ByteRange(mstart, mend)), ret |-> 0]
        ELSE dumpLoop(pgdir, pt, mstart, mend, <<>>)

----------------------------------------------------------------------------
(* mon_backtrace.  mem is the stack, fp the frame pointer: the word at fp  *)
(* is the saved frame pointer of the caller, the next word the return      *)
(* address, the four words after it the arguments.  The line that          *)
(* debuginfo_eip resolves is a function of eip alone and is left out.      *)

\* Mutant: the loop also ends at the frame whose saved pointer is zero.
at_base_saved(mem, fp) == fp = 0 \/ mem[fp] = 0

\* while (ebp)
at_base(mem, fp) == fp = 0

\* ebp = *(uint32_t *)ebp
saved_ebp(mem, fp) == mem[fp]

\* eip = *((int *)ebp + 1); args = (int *)ebp + 2; args[0..3]
StackFrame(mem, fp) ==
    [kind |-> "StackFrame", ebp |-> fp, eip |-> mem[fp + 4],
     args |-> [i \in 1..4 |-> mem[fp + 4 + 4 * i]]]

\* Mutant: the frames are collected newest last and shown in reverse.
emit_first(out, frame) == <<frame>> \o out

\* cprintf: the frame follows what was printed before it
emit(out, frame) == Append(out, frame)

\* The while loop from the state (ebp, out).  The stack does not change
\* while it runs, so an iteration at a frame pointer already visited
\* repeats for ever.
RECURSIVE backtraceLoop(_, _, _, _)
backtraceLoop(mem, fp, out, seen) ==
    IF at_base(mem, fp) THEN [out |-> out, ret |-> 0]
    ELSE IF fp \in seen THEN [out |-> out, ret |-> DIVERGES]
    ELSE backtraceLoop(mem, saved_ebp(mem, fp),
                       emit(out, StackFrame(mem, fp)), seen \cup {fp})

mon_backtrace(mem, fp0) == backtraceLoop(mem, fp0, <<>>, {})

----------------------------------------------------------------------------
(* mon_step, mon_continue *)

T_DEBUG == 1
T_BRKPT == 3
FL_TF == 256

\* Mutant: the privilege level of the saved cs is not looked at.
UserBreak_any_cs(t) ==
    /\ t # NULL
    /\ t[1].tf_trapno = T_DEBUG \/ t[1].tf_trapno = T_BRKPT

\* tf && (trapno == T_DEBUG || trapno == T_BRKPT) && (cs & 3) == 3
UserBreak(t) ==
    /\ t # NULL
    /\ t[1].tf_trapno = T_DEBUG \/ t[1].tf_trapno = T_BRKPT
    /\ BitAnd(t[1].tf_cs, 3) = 3

mon_step(t) ==
    IF ~UserBreak(t) THEN [tf |-> t, ret |-> 0]
    ELSE [tf |-> [t EXCEPT ![1].tf_eflags = BitOr(@, FL_TF)], ret |-> -1]

\* Mutant: continue resumes without clearing the flag.
mon_continue_keeps_flag(t) ==
    IF ~UserBreak(t) THEN [tf |-> t, ret |-> 0]
    ELSE [tf |-> t, ret |-> -1]

mon_continue(t) ==
    IF ~UserBreak(t) THEN [tf |-> t, ret |-> 0]
    ELSE [tf |-> [t EXCEPT ![1].tf_eflags = BitAnd(@, BitNot(FL_TF))],
          ret |-> -1]

----------------------------------------------------------------------------
(* runcmd and monitor.  A line is a pointer to the sequence of its         *)
(* whitespace-separated words, each word a command argument; readline may  *)
(* return NULL.                                                            *)

MAXARGS == 16

\* The table of commands: the name typed, and the handler mon_<func>.
commands ==
    <<[name |-> <<"h", "e", "l", "p">>, func |-> "help"],
       [name |-> <<"k", "e", "r", "n", "i", "n", "f", "o">>,
        func |-> "kerninfo"],
       [name |-> <<"b", "a", "c", "k", "t", "r", "a", "c", "e">>,
        func |-> "backtrace"],
       [name |-> <<"c", "l", "e", "a", "r">>, func |-> "clear"],
       [name |-> <<"r", "a", "i", "n", "b", "o", "w">>, func |-> "rainbow"],
       [name |-> <<"c", "p", "u", "i", "d">>, func |-> "cpuid"],
       [name |-> <<"s", "h", "o", "w", "m", "a", "p">>, func |-> "showmap"],
       [name |-> <<"s", "e", "t", "p", "e", "r", "m">>, func |-> "setperm"],
       [name |-> <<"d", "u", "m", "p", "m", "e", "m">>, func |-> "dumpmem"],
       [name |-> <<"s", "t", "e", "p">>, func |-> "step"],
       [name |-> <<"s">>, func |-> "step"],
       [name |-> <<"c", "o", "n", "t", "i", "n", "u", "e">>,
        func |-> "continue"],
       [name |-> <<"c">>, func |-> "continue"]>>

\* The handler of the first entry whose name is argv[0], if there is one.
lookup(name) ==
    LET hits == {i \in 1..Len(commands) : commands[i].name = name}
    IN  IF hits = {} THEN "unknown"
        ELSE commands[CHOOSE i \in hits : \A j \in hits : i <= j].func

\* runcmd(buf, tf) for a line of words argv; clr is the value clear()
\* returns should the line call it.  The result names the handler run, the
\* selected directory, the tables and the trap frame it leaves, its output
\* and its return value.
runcmd(argv, clr) ==
    LET same == [pgdir |-> cur_pgdir, pt |-> ptables, tf |-> tf]
        args == Tail(argv)
        func == lookup(argv[1].str)
    IN  IF Len(argv) > MAXARGS - 1
        THEN [cmd |-> "toomany", out |-> <<[kind |-> "TooMany"]>>,
              ret |-> 0] @@ same
        ELSE IF Len(argv) = 0
        THEN [cmd |-> "empty", out |-> <<>>, ret |-> 0] @@ same
        ELSE CASE func = "unknown" ->
                    [cmd |-> func, out |-> <<[kind |-> "Unknown"]>>,
                     ret |-> 0] @@ same
               [] func \in {"help", "kerninfo", "rainbow", "cpuid"} ->
                    [cmd |-> func, out |-> <<[kind |-> func]>>,
                     ret |-> 0] @@ same
               [] func = "backtrace" ->
                    [cmd |-> func] @@ mon_backtrace(stack, ebp) @@ same
               [] func = "clear" ->
                    [cmd |-> func, out |-> <<>>, ret |-> clr] @@ same
               [] func = "showmap" ->
                    [cmd |-> func] @@ mon_showmap(cur_pgdir, ptables, args)
                    @@ same
               [] func = "setperm" ->
                    [cmd |-> func, tf |-> tf]
                    @@ mon_setperm(cur_pgdir, ptables, args)
               [] func = "dumpmem" ->
                    [cmd |-> func] @@ mon_dumpmem(cur_pgdir, ptables, args)
                    @@ same
               [] func = "step" ->
                    [cmd |-> func, out |-> <<>>] @@ mon_step(tf) @@ same
               [] func = "continue" ->
                    [cmd |-> func, out |-> <<>>] @@ mon_continue(tf)
                    @@ same

\* Mutant: any non-zero result of a command ends the loop.
leaves_on_nonzero(ret) == ret # 0

\* if (runcmd(buf, tf) < 0) break
leaves(ret) == ret < 0

----------------------------------------------------------------------------
(* The commands as steps of the monitor *)

Showmap(args) ==
    /\ last' = [cmd |-> "showmap", args |-> args]
               @@ mon_showmap(cur_pgdir, ptables, args)
    /\ UNCHANGED <<kern_pgdir, env_pgdir, curenv, ptables, tf, ebp, stack,
                 mon>>

Dumpmem(args) ==
    /\ last' = [cmd |-> "dumpmem", args |-> args]
               @@ mon_dumpmem(cur_pgdir, ptables, args)
    /\ UNCHANGED <<kern_pgdir, env_pgdir, curenv, ptables, tf, ebp, stack,
                 mon>>

Setperm(args) ==
    LET r == mon_setperm(cur_pgdir, ptables, args) IN
    /\ last' = [cmd |-> "setperm", args |-> args, out |-> r.out,
                ret |-> r.ret]
    /\ IF curenv # NULL
       THEN env_pgdir' = r.pgdir /\ UNCHANGED kern_pgdir
       ELSE kern_pgdir' = r.pgdir /\ UNCHANGED env_pgdir
    /\ ptables' = r.pt
    /\ UNCHANGED <<curenv, tf, ebp, stack, mon>>

Step ==
    /\ last' = [cmd |-> "step", ret |-> mon_step(tf).ret]
    /\ tf' = mon_step(tf).tf
    /\ UNCHANGED <<kern_pgdir, env_pgdir, curenv, ptables, ebp, stack, mon>>

Continue ==
    /\ last' = [cmd |-> "continue", ret |-> mon_continue(tf).ret]
    /\ tf' = mon_continue(tf).tf
    /\ UNCHANGED <<kern_pgdir, env_pgdir, curenv, ptables, ebp, stack, mon>>

Backtrace ==
    /\ last' = [cmd |-> "backtrace"] @@ mon_backtrace(stack, ebp)
    /\ UNCHANGED <<kern_pgdir, env_pgdir, curenv, ptables, tf, ebp, stack,
                   mon>>

\* perm2str(target, perm) on a zeroed buffer of 10 characters
Perm2str(perm) ==
    /\ last' = [cmd |-> "perm2str", args |-> perm, out |-> perm2str(perm)]
    /\ UNCHANGED <<kern_pgdir, env_pgdir, curenv, ptables, tf, ebp, stack,
                   mon>>

\* str2perm on the string perm2str wrote
Roundtrip(perm) ==
    /\ last' = [cmd |-> "roundtrip", args |-> perm, str |-> perm2str(perm),
                ret |-> str2perm(perm2str(perm))]
    /\ UNCHANGED <<kern_pgdir, env_pgdir, curenv, ptables, tf, ebp, stack,
                   mon>>

\* One turn of the while loop of monitor(): readline returns buf, and
\* runcmd runs it unless it is NULL.  A handler that never returns leaves
\* the monitor hung inside it.
Monitor(buf, clr) ==
    /\ mon = "interactive"
    /\ IF buf = NULL
       THEN /\ last' = [cmd |-> "eof", args |-> <<>>, out |-> <<>>,
                        ret |-> 0]
            /\ UNCHANGED <<kern_pgdir, env_pgdir, ptables, tf, mon>>
       ELSE LET r == runcmd(buf[1], clr) IN
            /\ last' = [cmd |-> r.cmd,
                        args |-> IF buf[1] = <<>> THEN <<>> ELSE Tail(buf[1]),
                        out |-> r.out, ret |-> r.ret]
            /\ IF curenv # NULL
               THEN env_pgdir' = r.pgdir /\ UNCHANGED kern_pgdir
               ELSE kern_pgdir' = r.pgdir /\ UNCHANGED env_pgdir
            /\ ptables' = r.pt
            /\ tf' = r.tf
            /\ mon' = IF r.ret \in {DIVERGES, PANIC} THEN "hung"
                      ELSE IF leaves(r.ret) THEN "returned"
                      ELSE "interactive"
    /\ UNCHANGED <<curenv, ebp, stack>>

Str2perm(str) ==
    /\ last' = [cmd |-> "str2perm", args |-> str, ret |-> str2perm(str)]
    /\ UNCHANGED <<kern_pgdir, env_pgdir, curenv, ptables, tf, ebp, stack,
                 mon>>

----------------------------------------------------------------------------
(* Page tables the monitor can find at entry *)

\* The directory slots that vary; every other slot is empty.
VarSlots == {0, 1, NPDENTRIES - 1}

TableFrame(d) == (d + 1) * PGSIZE
SpareFrame == (NPDENTRIES + 1) * PGSIZE
TableFrames == {TableFrame(d) : d \in VarSlots} \cup {SpareFrame}

LeafFrame(d, t) == PGADDR((d + 1) % NPDENTRIES, (t + 1) % NPTENTRIES, 0)
SuperBase(d) == PGADDR((d + 2) % NPDENTRIES, 0, 0)

PTE_COW == 2048

TableKinds == {"full", "gap2", "gap0"}
DirKinds == {"none", "psnp", "super"} \cup TableKinds

LeafEntry(kind, d, t) ==
    LET mapped == LeafFrame(d, t)
                  + (IF t = 0 \/ d = 1
                     THEN PTE_P + PTE_U + PTE_A + PTE_D + PTE_COW
                     ELSE PTE_P + PTE_W)
    IN  CASE kind = "gap2" /\ t = 2 -> 0
          [] kind = "gap0" /\ t = 0 -> LeafFrame(d, t) + PTE_W
          [] OTHER -> mapped

DirEntry(kind, d) ==
    CASE kind = "none"  -> 0
      [] kind = "psnp"  -> SuperBase(d) + PTE_PS + PTE_W
      [] kind = "super" -> SuperBase(d) + PTE_P + PTE_PS + PTE_W
                           + PTE_A + PTE_D
      [] OTHER -> TableFrame(d) + PTE_P + PTE_W + PTE_U

MkPgdir(cfg) ==
    [d \in 0..(NPDENTRIES - 1) |->
        IF d \in VarSlots THEN DirEntry(cfg[d], d) ELSE 0]

MkTables(cfg) ==
    [f \in TableFrames |->
        [t \in 0..(NPTENTRIES - 1) |->
            IF \E d \in VarSlots : f = TableFrame(d) /\ cfg[d] \in TableKinds
            THEN LET d == CHOOSE e \in VarSlots : f = TableFrame(e)
                 IN  LeafEntry(cfg[d], d, t)
            ELSE 0]]

Cfg(k0, k1, kl) ==
    [d \in VarSlots |-> IF d = 0 THEN k0 ELSE IF d = 1 THEN k1 ELSE kl]

\* The directory that is not the selected one.
OtherPgdir == MkPgdir(Cfg("super", "none", "psnp"))

\* cfg is the selected address space.
Selected(cfg, env) ==
    /\ curenv = env
    /\ IF env # NULL
       THEN env_pgdir = MkPgdir(cfg) /\ kern_pgdir = OtherPgdir
       ELSE kern_pgdir = MkPgdir(cfg) /\ env_pgdir = OtherPgdir
    /\ ptables = MkTables(cfg)

\* The monitor is entered with cfg as the selected address space.
Booted(cfg, env) ==
    /\ Selected(cfg, env)
    /\ last = [cmd |-> "none"]

Envs == {NULL, <<"env">>}

----------------------------------------------------------------------------
(* The kernel stack the monitor runs on *)

MaxFrames == 3

\* Frames lie 32 bytes apart in the page above KERNBASE; a frame takes the
\* six words the unwinder reads.
FrameAddr(i) == KERNBASE + PGSIZE - 32 * i
FrameAddrs == {FrameAddr(i) : i \in 1..MaxFrames}
StackWords == {f + 4 * k : f \in FrameAddrs, k \in 0..5}

\* The stack whose frame f has link[f] as its saved frame pointer, a return
\* address in the kernel text and the words above it as arguments.
MkStack(link) ==
    [a \in StackWords |->
        LET f == CHOOSE g \in FrameAddrs : g <= a /\ a < g + 24
            k == (a - f) \div 4
        IN  IF k = 0 THEN link[f]
            ELSE IF k = 1 THEN KERNBASE + (f % 256)
            ELSE a % 256]

Links == [FrameAddrs -> FrameAddrs \cup {0}]

\* Calls nest downwards: every frame's caller is the frame above it, and
\* the outermost frame, pushed with ebp = 0, is the highest.
BootStack ==
    MkStack([f \in FrameAddrs |-> IF f = FrameAddr(1) THEN 0 ELSE f + 32])

\* monitor() has been entered and waits for a command.
Entered ==
    /\ ebp = FrameAddr(MaxFrames)
    /\ stack = BootStack
    /\ mon = "interactive"

----------------------------------------------------------------------------
(* Spec: setperm, showmap and dumpmem on two address spaces *)

Last == NPDENTRIES - 1

SetpermVAs ==
    {PGADDR(0, 1, 0), PGADDR(0, 2, 0), PGADDR(1, 1, 5), PGADDR(2, 0, 0),
     PGADDR(Last, NPTENTRIES - 1, 4095)}

PermStrings ==
    {<<"W", "P">>,
     <<"G", "S", "D", "A", "C", "T", "U", "W", "P">>,
     <<"W", "P", "Z">>,
     <<"W", "W", "W", "W", "W", "W", "W", "W", "W", "U">>}

SetpermArgs ==
    {<<N(va), S(str)>> : va \in SetpermVAs, str \in PermStrings}
    \cup {<<>>, <<N(PGADDR(0, 1, 0))>>}

ShowmapArgs ==
    {<<N(va)>> : va \in SetpermVAs}
    \cup {<<N(PGADDR(0, 1, 0)), N(PGSIZE)>>, <<>>, <<S(<<"x">>)>>}

DumpmemArgs ==
    {<<N(PGADDR(0, 1, 0) - 2), N(4)>>,
     <<S(<<"-", "v">>), N(PGADDR(1, 0, 0) - 1), N(3)>>,
     <<N(PGADDR(Last, 0, 0)), S(<<"-", "p">>), N(2)>>,
     <<N(0), N(1), N(2)>>, <<N(0)>>}

Init ==
    /\ tf = NULL
    /\ Entered
    /\ \E cfg \in {Cfg("gap2", "super", "psnp"), Cfg("none", "gap0", "super")},
          env \in Envs : Booted(cfg, env)

DoSetperm == \E args \in SetpermArgs : Setperm(args)
DoShowmap == \E args \in ShowmapArgs : Showmap(args)
DoDumpmem == \E args \in DumpmemArgs : Dumpmem(args)

Next == DoSetperm \/ DoShowmap \/ DoDumpmem

Spec == Init /\ [][Next]_vars

----------------------------------------------------------------------------
(* SpecInspect: showmap and dumpmem over every page-table layout *)

InspectCfgs == {Cfg(k0, k1, kl) : k0 \in DirKinds,
                                  k1 \in {"none", "psnp", "super", "gap0"},
                                  kl \in {"none", "super", "full"}}

InspectStarts ==
    {PGADDR(0, 0, 0), PGADDR(0, 1, 0), PGADDR(0, 1, 564),
     PGADDR(0, NPTENTRIES - 1, 4094), PGADDR(1, 1, 0),
     PGADDR(Last, NPTENTRIES - 1, 4094)}

InspectShowmapArgs ==
    {<<N(a)>> : a \in InspectStarts}
    \cup {<<N(a), N(n)>> : a \in InspectStarts, n \in {PGSIZE, LPGSIZE}}
    \cup {<<>>, <<S(<<"x">>)>>}

InspectDumpmemArgs ==
    {<<N(a), N(n)>> :
        a \in {PGADDR(0, 1, 0) - 2, PGADDR(0, 2, 564), PGADDR(1, 0, 0) - 2,
               PGADDR(1, 1, 0)},
        n \in {1, 4}}
    \cup {<<S(<<"-", "v">>), N(PGADDR(1, 0, 0) - 2), N(4)>>,
          <<N(PGADDR(0, 1, 0)), S(<<"-", "-", "v", "i", "r", "t", "u", "a",
                                    "l">>), N(2)>>,
          <<N(0), N(3), S(<<"-", "p">>)>>,
          <<S(<<"-", "-", "p", "h", "y", "s", "i", "c", "a", "l">>),
            N(PGSIZE - 1), N(2)>>,
          <<N(0), N(1), N(2)>>, <<N(0)>>}

InitInspect ==
    /\ tf = NULL
    /\ Entered
    /\ \E cfg \in InspectCfgs, env \in Envs : Booted(cfg, env)

InspectShowmap == \E args \in InspectShowmapArgs : Showmap(args)
InspectDumpmem == \E args \in InspectDumpmemArgs : Dumpmem(args)

NextInspect == InspectShowmap \/ InspectDumpmem

SpecInspect == InitInspect /\ [][NextInspect]_vars

----------------------------------------------------------------------------
(* SpecPhys: dumpmem in physical mode around the top of physical memory *)

\* ~KERNBASE + 1, the first address past physical memory
MemTop == WORD - KERNBASE

PhysStarts == {MemTop - 6, MemTop - 4, MemTop - 1, MemTop, MemTop + 3}

PhysLens == {0, 1, 2, 6, WORD - 2, WORD - 1}

PhysDumpmemArgs ==
    {<<S(<<"-", "p">>), N(a), N(n)>> : a \in PhysStarts, n \in PhysLens}
    \cup {<<N(a), N(n), S(<<"-", "-", "p", "h", "y", "s", "i", "c", "a",
                           "l">>)>> : a \in PhysStarts, n \in PhysLens}

NextPhys == \E args \in PhysDumpmemArgs : Dumpmem(args)

SpecPhys == Init /\ [][NextPhys]_vars

----------------------------------------------------------------------------
(* SpecStep: step and continue on a trap frame *)

GD_KT == 8
GD_UT == 24
T_PGFLT == 14
T_SYSCALL == 48

TrapFrames ==
    [tf_trapno : {T_DEBUG, T_BRKPT, T_PGFLT, T_SYSCALL},
     tf_cs : {GD_KT, GD_UT + 3, GD_UT + 1},
     tf_eflags : {2, 2 + 512, 2 + FL_TF, 2 + 512 + FL_TF + 64}]

InitStep ==
    /\ tf \in {<<t>> : t \in TrapFrames} \cup {NULL}
    /\ Entered
    /\ Booted(Cfg("gap2", "super", "psnp"), NULL)

NextStep == Step \/ Continue

SpecStep == InitStep /\ [][NextStep]_vars

----------------------------------------------------------------------------
(* SpecCodec: str2perm on every short string *)

CodecMaxLen == 3

CodecChars == {"G", "S", "U", "W", "P", "Z", "-"}

CodecStrings == UNION {[1..n -> CodecChars] : n \in 0..CodecMaxLen}

InitCodec ==
    /\ tf = NULL
    /\ Entered
    /\ Booted(Cfg("gap2", "super", "psnp"), NULL)

NextCodec == \E str \in CodecStrings : Str2perm(str)

SpecCodec == InitCodec /\ [][NextCodec]_vars

----------------------------------------------------------------------------
(* SpecEncode: perm2str on every attribute field, and str2perm after it *)

\* PERM(entry): the 12 low bits of an entry
PermFields == 0..4095

\* The sets of the nine attributes that leave Present clear
PermSets == {q \in 0..511 : ~Has(q, PTE_P)}

\* The codec is handed one attribute field.
InitEncode ==
    /\ tf = NULL
    /\ Entered
    /\ Selected(Cfg("gap2", "super", "psnp"), NULL)
    /\ last \in {[cmd |-> "perm", args |-> perm] : perm \in PermFields}

EncodeAny == last.cmd = "perm" /\ Perm2str(last.args)

EncodeDecode ==
    /\ last.cmd = "perm"
    /\ last.args \in PermSets
    /\ Roundtrip(last.args)

NextEncode == EncodeAny \/ EncodeDecode

SpecEncode == InitEncode /\ [][NextEncode]_vars

----------------------------------------------------------------------------
(* SpecBacktrace: backtrace on every frame-pointer chain of the stack *)

InitBacktrace ==
    /\ tf = NULL
    /\ Booted(Cfg("gap2", "super", "psnp"), NULL)
    /\ mon = "interactive"
    /\ stack \in {MkStack(link) : link \in Links}
    /\ ebp \in FrameAddrs \cup {0}

NextBacktrace == Backtrace

SpecBacktrace == InitBacktrace /\ [][NextBacktrace]_vars

----------------------------------------------------------------------------
(* SpecMonitor: the command loop of monitor() on a trap frame *)

MonitorLines ==
    {<<S(<<"h", "e", "l", "p">>)>>,
     <<S(<<"k", "e", "r", "n", "i", "n", "f", "o">>)>>,
     <<S(<<"b", "a", "c", "k", "t", "r", "a", "c", "e">>)>>,
     <<S(<<"c", "l", "e", "a", "r">>)>>,
     <<S(<<"r", "a", "i", "n", "b", "o", "w">>)>>,
     <<S(<<"c", "p", "u", "i", "d">>), N(1)>>,
     <<S(<<"s", "h", "o", "w", "m", "a", "p">>)>>,
     <<S(<<"s", "h", "o", "w", "m", "a", "p">>), N(PGADDR(0, 1, 0))>>,
     <<S(<<"s", "h", "o", "w", "m", "a", "p">>), N(PGADDR(2, 0, 0))>>,
     <<S(<<"s", "h", "o", "w", "m", "a", "p">>), N(PGADDR(1, 0, 0))>>,
     <<S(<<"s", "e", "t", "p", "e", "r", "m">>), N(PGADDR(0, 1, 0)), S(<<"U", "W">>)>>,
     <<S(<<"s", "e", "t", "p", "e", "r", "m">>), N(PGADDR(2, 0, 0)), S(<<"U", "W">>)>>,
     <<S(<<"s", "e", "t", "p", "e", "r", "m">>)>>,
     <<S(<<"d", "u", "m", "p", "m", "e", "m">>), N(PGADDR(0, 1, 0) - 1), N(2)>>,
     <<S(<<"d", "u", "m", "p", "m", "e", "m">>)>>,
     <<S(<<"s", "t", "e", "p">>)>>,
     <<S(<<"s">>)>>,
     <<S(<<"c", "o", "n", "t", "i", "n", "u", "e">>)>>,
     <<S(<<"c">>)>>,
     <<S(<<"s", "t", "e", "p", "p">>)>>,
     <<S(<<"x">>), N(0)>>,
     <<>>,
     [i \in 1..MAXARGS |-> IF i = 1 THEN S(<<"s">>) ELSE N(i)]}

\* What readline can return
MonitorBufs == {<<argv>> : argv \in MonitorLines} \cup {NULL}

\* What clear() can return; kern/console.c decides.
ClearReturns == {-1, 0, 1}

MonitorFrames ==
    [tf_trapno : {T_DEBUG, T_BRKPT, T_PGFLT},
     tf_cs : {GD_KT, GD_UT + 3},
     tf_eflags : {2, 2 + FL_TF}]

InitMonitor ==
    /\ tf \in {<<t>> : t \in MonitorFrames} \cup {NULL}
    /\ Entered
    /\ \E env \in Envs : Booted(Cfg("gap2", "gap0", "super"), env)

NextMonitor == \E buf \in MonitorBufs, clr \in ClearReturns : Monitor(buf, clr)

SpecMonitor == InitMonitor /\ [][NextMonitor]_vars

----------------------------------------------------------------------------
(* Vocabulary of the properties *)

Mnemonics == <<"G", "S", "D", "A", "C", "T", "U", "W", "P">>

IsMnemonic(c) == \E k \in 1..9 : Mnemonics[k] = c

AllMnemonics(str) == \A i \in 1..Len(str) : IsMnemonic(str[i])

\* The attribute bit a mnemonic names: G is bit 8, ..., P is bit 0.
BitOf(k) == Pow2(9 - k)

\* A setperm call that got its two arguments.
IsSetperm(l) == l.cmd = "setperm" /\ Len(l.args) = 2

\* Every entry of both directories and of every table.
PageTables == <<kern_pgdir, env_pgdir, ptables>>

\* va has no translation in the selected address space.
NoTranslation(va) ==
    LET pde == PDE(cur_pgdir, va) IN
    \/ ~Has(pde, PTE_P)
    \/ /\ Has(pde, PTE_P)
       /\ ~Has(pde, PTE_PS)
       /\ ~Has(PTE(cur_pgdir, ptables, va), PTE_P)

----------------------------------------------------------------------------
(* C1: setperm with a permission string that holds a character outside    *)
(* G,S,D,A,C,T,U,W,P fails (its result is not the success result 0) and   *)
(* changes no directory entry and no leaf entry.                          *)
C1_BadTokenRejected ==
    [][(IsSetperm(last') /\ ~AllMnemonics(last'.args[2].str))
          => (last'.ret # 0 /\ UNCHANGED PageTables)]_vars

(* C2: str2perm of a string that holds an unrecognized character is       *)
(* rejected, and a set it returns has only bits that a recognized         *)
(* character of the input names.                                          *)
C2_DecodeRejectsUnknown ==
    last.cmd = "str2perm" =>
        /\ ~AllMnemonics(last.args) => last.ret = PANIC
        /\ last.ret # PANIC =>
              \A b \in 0..(PDXSHIFT + PDXBITS - 1) :
                  Has(last.ret, Pow2(b)) =>
                      \E i \in 1..Len(last.args), k \in 1..9 :
                          last.args[i] = Mnemonics[k] /\ BitOf(k) = Pow2(b)

(* C3: when showmap reaches an address of its range that has no           *)
(* translation, it emits exactly one Unmapped observation, for that       *)
(* address and as its last output, and terminates.  The address showmap   *)
(* reaches after its Mapped observations is the rounded-down start when   *)
(* there is none, else the last one's address plus that mapping's size.   *)
Observations(out) ==
    SelectSeq(out, LAMBDA o : o.kind \in {"Mapped", "Unmapped"})

ShowmapRan(l) ==
    l.cmd = "showmap" /\ Len(l.args) >= 1 /\ l.out # <<Usage>>

\* start + length, the end of the range
ShowmapEnd(l) ==
    l.args[1].num + (IF Len(l.args) >= 2 THEN l.args[2].num ELSE 1)

ReachedAfter(l) ==
    LET mapped == SelectSeq(l.out, LAMBDA o : o.kind = "Mapped")
        m == mapped[Len(mapped)]
    IN  IF mapped = <<>> THEN ROUNDDOWN(l.args[1].num, PGSIZE)
        ELSE U32(m.va + (IF m.pse THEN LPGSIZE ELSE PGSIZE))

C3_ShowmapStopsAtGap ==
    ShowmapRan(last) =>
        LET a == ReachedAfter(last)
            obs == Observations(last.out)
            start == ROUNDDOWN(last.args[1].num, PGSIZE)
            inrange == ShowmapEnd(last) < WORD
                       /\ start <= a /\ a < ShowmapEnd(last)
        IN  (inrange /\ NoTranslation(a)) =>
                /\ last.ret = 1
                /\ obs # <<>>
                /\ obs[Len(obs)] = [kind |-> "Unmapped", va |-> a]
                /\ Len(SelectSeq(obs, LAMBDA o : o.kind = "Unmapped")) = 1

(* C4: dumpmem in virtual mode over [start, start+length) terminates and  *)
(* emits exactly length observations, one MappedByte or Unmapped per      *)
(* address, in increasing order of address, whatever the page tables.     *)
DumpNums(l) == SelectSeq(l.args, isdigit)

DumpVirtual(l) ==
    /\ l.cmd = "dumpmem"
    /\ Len(DumpNums(l)) = 2
    /\ \/ Len(l.args) = 2
       \/ Len(l.args) = 3 /\ \E i \in 1..3 : l.args[i].str \in VirtOpts

C4_DumpmemCoversRange ==
    DumpVirtual(last) =>
        LET start == DumpNums(last)[1].num
            length == DumpNums(last)[2].num
        IN  start + length <= WORD =>
                /\ last.ret = 0
                /\ Len(last.out) = length
                /\ \A k \in 1..Len(last.out) :
                      /\ last.out[k].kind \in {"MappedByte", "Unmapped"}
                      /\ last.out[k].va = start + k - 1

(* C5: showmap, dumpmem and a setperm call that reports "no such mapping" *)
(* change no directory entry and no leaf entry, and so install no         *)
(* second-level table.                                                    *)
NoSuchMapping(l) == l.out = <<[kind |-> "NoSuchMapping"]>>

C5_InspectionReadOnly ==
    [][(\/ last'.cmd \in {"showmap", "dumpmem"}
        \/ IsSetperm(last') /\ NoSuchMapping(last'))
          => UNCHANGED PageTables]_vars

C5_Witness ==
    /\ IsSetperm(last)
    /\ NoSuchMapping(last)
    /\ PDE(cur_pgdir, last.args[1].num) = 0

(* C6: a successful setperm with a string of recognized mnemonics changes *)
(* at most the low 12 bits of the one entry that governs va (the          *)
(* directory entry of a present superpage, else the present leaf entry);  *)
(* that entry keeps its bits 12 and above, every other entry of the       *)
(* selected directory, of the other directory and of the tables is as     *)
(* before.                                                                *)
FrameBits(entry) == entry \div 4096

SetpermOk(l) ==
    IsSetperm(l) /\ l.ret = 0 /\ AllMnemonics(l.args[2].str)

C6_SetpermTouchesOnlyAttributes ==
    [][SetpermOk(last') =>
          LET va == last'.args[1].num
              pde == PDE(cur_pgdir, va)
              f == PTE_ADDR(pde)
          IN  /\ curenv # NULL => kern_pgdir' = kern_pgdir
              /\ curenv = NULL => env_pgdir' = env_pgdir
              /\ IF Has(pde, PTE_P) /\ Has(pde, PTE_PS)
                 THEN /\ ptables' = ptables
                      /\ \A d \in DOMAIN cur_pgdir :
                            d # PDX(va) => cur_pgdir'[d] = cur_pgdir[d]
                      /\ FrameBits(cur_pgdir'[PDX(va)]) = FrameBits(pde)
                 ELSE /\ cur_pgdir' = cur_pgdir
                      /\ Has(pde, PTE_P)
                      /\ Has(ptables[f][PTX(va)], PTE_P)
                      /\ \A g \in DOMAIN ptables, t \in 0..(NPTENTRIES - 1) :
                            <<g, t>> # <<f, PTX(va)>>
                                => ptables'[g][t] = ptables[g][t]
                      /\ FrameBits(ptables'[f][PTX(va)])
                            = FrameBits(ptables[f][PTX(va)])]_vars

C6_Witness ==
    /\ SetpermOk(last)
    /\ Len(last.args[2].str) = 9
    /\ ~Has(PDE(cur_pgdir, last.args[1].num), PTE_PS)
    /\ PERM(PTE(cur_pgdir, ptables, last.args[1].num)) = 511

(* C7: a setperm call, whatever its permission string, leaves present     *)
(* every entry that was present and leaves the Superpage bit of every     *)
(* directory entry as it was.                                             *)
C7_PresentAndSuperpageKept ==
    [][last'.cmd = "setperm" =>
          /\ \A d \in DOMAIN kern_pgdir :
                /\ Has(kern_pgdir[d], PTE_P) => Has(kern_pgdir'[d], PTE_P)
                /\ Has(kern_pgdir[d], PTE_PS) = Has(kern_pgdir'[d], PTE_PS)
                /\ Has(env_pgdir[d], PTE_P) => Has(env_pgdir'[d], PTE_P)
                /\ Has(env_pgdir[d], PTE_PS) = Has(env_pgdir'[d], PTE_PS)
          /\ \A g \in DOMAIN ptables, t \in 0..(NPTENTRIES - 1) :
                Has(ptables[g][t], PTE_P) => Has(ptables'[g][t], PTE_P)]_vars

C7_Witness ==
    /\ IsSetperm(last)
    /\ last.ret = 0
    /\ last.args[2].str = <<"W", "P">>
    /\ PERM(PDE(cur_pgdir, last.args[1].num)) = PTE_PS + PTE_W + PTE_P

(* C8: step and continue on a trap frame that is absent, or is not a      *)
(* debug or breakpoint trap, or was not taken in user mode, return 0 and  *)
(* leave the trap frame as it was.                                        *)
Gated(t) ==
    \/ t = NULL
    \/ t[1].tf_trapno \notin {T_DEBUG, T_BRKPT}
    \/ t[1].tf_cs % 4 # 3

C8_GatedStepIsNoop ==
    [][(last'.cmd \in {"step", "continue"} /\ Gated(tf))
          => (last'.ret = 0 /\ tf' = tf)]_vars

C8_Witness ==
    /\ last.cmd = "step"
    /\ last.ret = 0
    /\ tf # NULL
    /\ tf[1].tf_trapno = T_BRKPT
    /\ tf[1].tf_cs = GD_KT

(* C9: on a debug or breakpoint trap taken in user mode, step sets the    *)
(* single-step flag of the saved flags, continue clears it, both return   *)
(* the resume result -1, and no other bit of the flags and no other field *)
(* of the trap frame changes; so afterwards the flag is set exactly when  *)
(* the command was step.                                                  *)
WithTF(eflags, on) ==
    IF on THEN (IF Has(eflags, FL_TF) THEN eflags ELSE eflags + FL_TF)
    ELSE (IF Has(eflags, FL_TF) THEN eflags - FL_TF ELSE eflags)

C9_StepSetsContinueClears ==
    [][(last'.cmd \in {"step", "continue"} /\ ~Gated(tf)) =>
          /\ last'.ret = -1
          /\ tf' = <<[tf[1] EXCEPT
                        !.tf_eflags = WithTF(@, last'.cmd = "step")]>>
          /\ Has(tf'[1].tf_eflags, FL_TF) = (last'.cmd = "step")]_vars

C9_Witness ==
    /\ last.cmd = "continue"
    /\ last.ret = -1
    /\ tf[1].tf_eflags = 2 + 512 + 64

(* C10: after a successful setperm(va, s) with s made of recognized       *)
(* mnemonics, the next showmap of va reports for va's page the string of  *)
(* the attributes s names, plus P, plus S when a superpage maps va, and   *)
(* no other attribute.                                                    *)
ExpectedPerm(str, super) ==
    [k \in 1..9 |->
        IF \/ Mnemonics[k] = "P"
           \/ super /\ Mnemonics[k] = "S"
           \/ \E i \in 1..Len(str) : str[i] = Mnemonics[k]
        THEN Mnemonics[k] ELSE "-"]

MappedLines(l) == SelectSeq(l.out, LAMBDA o : o.kind = "Mapped")

ShowmapAfterSetperm ==
    /\ SetpermOk(last)
    /\ last'.cmd = "showmap"
    /\ Len(last'.args) >= 1
    /\ isdigit(last'.args[1])
    /\ last'.args[1].num = last.args[1].num

C10_ShowmapReflectsSetperm ==
    [][ShowmapAfterSetperm =>
          /\ MappedLines(last') # <<>>
          /\ MappedLines(last')[1].va = ROUNDDOWN(last.args[1].num, PGSIZE)
          /\ MappedLines(last')[1].perm
                = ExpectedPerm(last.args[2].str,
                               Has(PDE(cur_pgdir, last.args[1].num),
                                   PTE_PS))]_vars

(* C11: showmap over a range [start, start+length) that has no gap and is *)
(* mapped at one granularity step (small pages only, or superpages only), *)
(* with start aligned to step, terminates normally with exactly           *)
(* ceil(length / step) Mapped observations and no Unmapped one.           *)
ShowmapLen(l) == IF Len(l.args) >= 2 THEN l.args[2].num ELSE 1

StepOf(va) == IF Has(PDE(cur_pgdir, va), PTE_PS) THEN LPGSIZE ELSE PGSIZE

\* The page-aligned addresses of [start, start+length), start page-aligned.
PagesOf(start, length) ==
    {start + k * PGSIZE : k \in 0..((length - 1) \div PGSIZE)}

UniformRange(start, length) ==
    /\ \A a \in PagesOf(start, length) : ~NoTranslation(a)
    /\ \A a \in PagesOf(start, length) : StepOf(a) = StepOf(start)

CeilDiv(n, d) == (n + d - 1) \div d

C11_ShowmapCountsSteps ==
    ShowmapRan(last) =>
        LET start == last.args[1].num
            length == ShowmapLen(last)
            step == StepOf(start)
        IN  (/\ length > 0
             /\ start + length < WORD
             /\ start % step = 0
             /\ UniformRange(start, length))
            => /\ last.ret = 0
               /\ Len(MappedLines(last)) = CeilDiv(length, step)
               /\ \A k \in 1..Len(last.out) : last.out[k].kind # "Unmapped"

(* C12: dumpmem in physical mode with start + length beyond the top of    *)
(* physical memory reports the truncation notice and then emits exactly   *)
(* one MappedByte observation per address of [start, top), in order, and  *)
(* nothing else; also when start + length does not fit in a machine word. *)
DumpPhysical(l) ==
    /\ l.cmd = "dumpmem"
    /\ Len(l.args) = 3
    /\ Len(DumpNums(l)) = 2
    /\ \E i \in 1..3 : l.args[i].str \in PhysOpts

C12_PhysicalClamped ==
    DumpPhysical(last) =>
        LET start == DumpNums(last)[1].num
            length == DumpNums(last)[2].num
            range == ByteRange(start, MemTop)
        IN  start + length > MemTop =>
                /\ last.ret = 0
                /\ last.out = <<[kind |-> "Truncated"]>>
                              \o [k \in DOMAIN range |->
                                     [kind |-> "MappedByte", pa |-> range[k]]]

(* C13: backtrace started at frame pointer fp0 on an acyclic chain        *)
(* fp0 -> fp1 -> ... -> 0 with N non-zero frame pointers terminates with  *)
(* exactly N stack frames, one for each frame pointer of the chain;       *)
(* started at frame pointer 0 it emits none.                              *)
RECURSIVE Walk(_, _, _)
Walk(mem, fp, n) ==
    IF n = 0 \/ fp = 0 THEN fp ELSE Walk(mem, mem[fp], n - 1)

Acyclic(mem, fp) == Walk(mem, fp, MaxFrames) = 0

\* N: the number of non-zero frame pointers of an acyclic chain
ChainLen(mem, fp) ==
    CHOOSE n \in 0..MaxFrames :
        Walk(mem, fp, n) = 0 /\ \A m \in 0..(n - 1) : Walk(mem, fp, m) # 0

BacktraceRan(l) == l.cmd = "backtrace"

C13_BacktraceOneFramePerPointer ==
    (BacktraceRan(last) /\ Acyclic(stack, ebp)) =>
        /\ last.ret = 0
        /\ Len(last.out) = ChainLen(stack, ebp)
        /\ \A n \in 0..(ChainLen(stack, ebp) - 1) :
              Cardinality({k \in 1..Len(last.out) :
                              last.out[k].ebp = Walk(stack, ebp, n)}) = 1
        /\ ebp = 0 => last.out = <<>>

C13_Witness ==
    /\ BacktraceRan(last)
    /\ last.ret = 0
    /\ Len(last.out) = MaxFrames

(* C14 as stated: the frames of the chain fp0 -> fp1 -> ... -> 0 are      *)
(* emitted in caller-to-callee order, the outermost frame first and the   *)
(* frame at fp0 last.                                                     *)
C14_CallerToCallee ==
    (BacktraceRan(last) /\ Acyclic(stack, ebp)) =>
        \A k \in 1..Len(last.out) :
            last.out[k].ebp = Walk(stack, ebp, Len(last.out) - k)

(* C14 amended: the frames are emitted in callee-to-caller order: the     *)
(* first is the frame at fp0, and each next one is the frame of the       *)
(* caller of the one before it.                                           *)
C14_CalleeToCaller ==
    (BacktraceRan(last) /\ Acyclic(stack, ebp)) =>
        \A k \in 1..Len(last.out) :
            /\ last.out[k].ebp = Walk(stack, ebp, k - 1)
            /\ k > 1 => last.out[k].ebp = stack[last.out[k - 1].ebp]

C14_Witness ==
    /\ BacktraceRan(last)
    /\ last.ret = 0
    /\ Len(last.out) = 2
    /\ last.out[1].ebp = ebp
    /\ last.out[2].ebp = stack[ebp]

(* C15: for every set p of the nine attributes with Present clear,        *)
(* str2perm of the 9-character string perm2str writes for p is p.         *)
C15_CodecRoundTrip ==
    last.cmd = "roundtrip" => last.ret = last.args

(* C16: perm2str writes exactly 9 characters; the character at position k *)
(* (from 0) is the mnemonic of bit 8-k, in the order G,S,D,A,C,T,U,W,P,   *)
(* when that bit is set and "-" otherwise; bits 9 and above of the input  *)
(* do not matter: the output is that of the input's low 9 bits.           *)
EncodingOf(low9) ==
    [k \in 1..9 |-> IF Has(low9, BitOf(k)) THEN Mnemonics[k] ELSE "-"]

C16_EncodeNineCharacters ==
    last.cmd = "perm2str" =>
        /\ Len(last.out) = 9
        /\ \A k \in 1..9 :
              last.out[k] = (IF (last.args \div BitOf(k)) % 2 = 1
                             THEN Mnemonics[k] ELSE "-")
        /\ last.out = EncodingOf(last.args % 512)

C16_Witness ==
    /\ last.cmd = "perm2str"
    /\ last.args = 2048 + 512 + PTE_G + PTE_U + PTE_P
    /\ last.out = <<"G", "-", "-", "-", "-", "-", "U", "-", "P">>

(* C17: a setperm call whose governing directory entry is not a superpage *)
(* never sets the Superpage attribute bit of a leaf entry, whatever       *)
(* recognized mnemonics its permission string names, S included.          *)
C17_LeafNeverSuperpage ==
    [][(/\ IsSetperm(last')
        /\ AllMnemonics(last'.args[2].str)
        /\ ~Has(PDE(cur_pgdir, last'.args[1].num), PTE_PS))
          => \A g \in DOMAIN ptables, t \in 0..(NPTENTRIES - 1) :
                Has(ptables'[g][t], PTE_PS) => Has(ptables[g][t], PTE_PS)]_vars

(* C18: every Mapped observation of showmap carries the physical address  *)
(* its virtual address resolves to: for a small page the frame address of *)
(* the leaf entry of that address, for a superpage the frame base of the  *)
(* directory entry combined with the table-index bits of the address.     *)
ResolvedPage(va) ==
    LET pde == PDE(cur_pgdir, va) IN
    IF Has(pde, PTE_PS)
    THEN BitOr(PTE_ADDR(pde), PTX(va) * PGSIZE)
    ELSE PTE_ADDR(PTE(cur_pgdir, ptables, va))

C18_MappedCarriesResolvedAddress ==
    ShowmapRan(last) =>
        \A k \in 1..Len(MappedLines(last)) :
            MappedLines(last)[k].pa = ResolvedPage(MappedLines(last)[k].va)

(* C19: showmap steps over no address: every page-aligned address from    *)
(* the rounded-down start to the address of its last Mapped observation   *)
(* lies in the mapping of one of its Mapped observations, which for a     *)
(* small page is that page and for a superpage the superpage's own        *)
(* directory region.                                                      *)
Covers(m, a) ==
    IF m.pse THEN PDX(a) = PDX(m.va) ELSE a = m.va

C19_ShowmapSkipsNothing ==
    (ShowmapRan(last) /\ MappedLines(last) # <<>>) =>
        LET mapped == MappedLines(last)
            start == ROUNDDOWN(last.args[1].num, PGSIZE)
            final == mapped[Len(mapped)].va
        IN  \A k \in 0..((final - start) \div PGSIZE) :
                \E i \in 1..Len(mapped) : Covers(mapped[i], start + k * PGSIZE)

(* C20: for any sequence of commands, the monitor leaves its loop and     *)
(* returns to the interrupted context only by a step or continue command  *)
(* run on a debug or breakpoint trap taken in user mode; every other      *)
(* command, failed or not, and every gated-out step or continue does not  *)
(* end the loop, and leaves the monitor interactive when its handler      *)
(* returns.  The clear command is taken to get a non-negative value from  *)
(* the console's clear routine.                                           *)
Resumes(l, t) == l.cmd \in {"step", "continue"} /\ ~Gated(t)

ClearFailed(l) == l.cmd = "clear" /\ l.ret < 0

C20_OnlyStepOrContinueLeaves ==
    [][(mon = "interactive" /\ ~ClearFailed(last')) =>
          /\ mon' = "returned" <=> Resumes(last', tf)
          /\ ~Resumes(last', tf) =>
                /\ tf' = tf
                /\ last'.ret # DIVERGES => mon' = "interactive"]_vars

C20_Witness ==
    /\ mon = "returned"
    /\ last.cmd = "step"
    /\ last.ret = -1
    /\ Has(tf[1].tf_eflags, FL_TF)

====
